---------------------------- MODULE Spec2Model ----------------------------
(***************************************************************************)
(* The GTO scenario work queue: the round-robin seeder                     *)
(* (scripts/seed_gto_scenarios.py) and the queue workers                   *)
(* (scripts/windows_piosolver/piosolver_batch_runner.py and                *)
(* scripts/piosolver_batch.py) sharing the tables gto_solve_queue and      *)
(* gto_solutions.  Every store call is one atomic step; the local          *)
(* computation between two store calls belongs to the step before it.      *)
(***************************************************************************)
EXTENDS Integers, Sequences, FiniteSets, TLC

VARIABLES
    cfg,          \* catalog in force: BATCH_SIZE, the 50K limit, BUCKETS
    deploy,       \* how the processes are run: "concurrent" (seeder and two
                  \* workers), "single" (seeder and one worker), "sequential"
                  \* (one worker, never while a seeding run is under way),
                  \* "seeding" (the seeder alone)
    queue,        \* table gto_solve_queue, row id = position
    solutions,    \* table gto_solutions
    spc,          \* seeder position: "idle", "round", "insert", "done"
    counts,       \* tracker.counts
    loaded,       \* tracker.counts as load_from_db left them
    incomplete,   \* the list the current round iterates
    todo,         \* suffix of incomplete not yet seeded in this round
    scenarios,    \* scenarios of the current batch not yet written
    total_seeded,
    round_num,
    runs,         \* runs of seed_round_robin started
    batch,        \* the batch being written: bucket, size, no upsert raised yet
    seededFull,   \* history: per bucket, largest batch written without a raise
    wpc,          \* worker position: "poll", "sleep", "claim", "solve", "upserted",
                  \* "backoff", "handler", "exited"
    cur,          \* scenario_id of the row a worker holds (0: none)
    handed,       \* history: per row, hand-offs to the solver since its last
                  \* failure: 0, 1, or 2 for more than one
    result,       \* what run_piosolver / run_solve returned to a worker
    script,       \* the script a worker runs: "piosolver_batch_runner" or
                  \* "piosolver_batch"
    roundStart,   \* history: tracker.counts at the top of the current round
    hx            \* arguments and result of a function applied on its own
                  \* (the hashes, the parser, the enumerator)

vars == <<cfg, deploy, queue, solutions, spc, counts, loaded, incomplete, todo,
          scenarios, total_seeded, round_num, runs, batch,
          seededFull, wpc, cur, handed, result, script, roundStart, hx>>

envVars == <<cfg, deploy, script, hx>>

seederVars == <<spc, counts, loaded, incomplete, todo, scenarios, total_seeded,
                round_num, runs, batch, seededFull, roundStart>>

workerVars == <<wpc, cur, handed, solutions, result>>

NULL == "NULL"

(***************************************************************************)
(* Bounds of the model.                                                    *)
(***************************************************************************)
MaxRuns == 2          \* runs of seed_round_robin where it is run repeatedly
MaxRound == 3         \* round_num saturates here (it is only printed)
HashBoards == 2       \* boards of BOARD_LIBRARY the compared scenarios draw from
MaxLines == 2         \* lines of a solver output handed to the parser
MaxTarget == 3        \* largest target_count of the catalogs of RoundCatalogs
Workers == {1, 2}

Min(a, b) == IF a < b THEN a ELSE b

Abs(a) == IF a < 0 THEN 0 - a ELSE a

(***************************************************************************)
(* Static tables of seed_gto_scenarios.py.  A board "AsKd2c" is the        *)
(* sequence of its characters; a format code "spin_3max_icm" is the        *)
(* sequence of its underscore-separated tokens, so that the substring      *)
(* tests of the code ("icm" in format_code) are membership tests.          *)
(***************************************************************************)
BOARD_LIBRARY ==
    << <<"A","s","K","d","2","c">>, <<"K","s","Q","c","3","d">>,
       <<"Q","h","J","d","4","c">>, <<"A","h","T","c","5","d">>,
       <<"7","s","4","d","2","c">>, <<"8","c","5","d","3","s">>,
       <<"6","h","4","c","2","d">>,
       <<"K","s","Q","d","J","c">>, <<"Q","c","J","d","T","h">>,
       <<"J","s","T","c","9","d">>,
       <<"9","s","8","d","7","c">>, <<"8","h","7","c","6","d">>,
       <<"7","s","6","d","5","c">>,
       <<"A","s","9","s","4","s">>, <<"K","h","8","h","3","h">>,
       <<"A","s","A","d","5","c">>, <<"K","s","K","c","7","d">>,
       <<"A","s","K","d","5","s">>, <<"K","h","Q","c","3","h">> >>

POSITIONS_BY_FORMAT ==
    [hu   |-> << <<"BTN","BB">> >>,
     max3 |-> << <<"BTN","BB">>, <<"BTN","SB">>, <<"SB","BB">> >>,
     max6 |-> << <<"BTN","BB">>, <<"CO","BB">>, <<"MP","BB">>, <<"UTG","BB">>,
                 <<"BTN","SB">>, <<"CO","SB">> >>,
     max9 |-> << <<"BTN","BB">>, <<"CO","BB">>, <<"HJ","BB">>, <<"MP","BB">>,
                 <<"UTG+2","BB">>, <<"UTG+1","BB">>, <<"UTG","BB">> >>]

POT_TYPES == <<"srp", "3bet">>

FACING_ACTIONS == <<"check", "bet_33", "bet_50">>

Contains(format_code, token) == \E k \in 1..Len(format_code) : format_code[k] = token

\* a counter that advances every second index
CycleHalf(seq, idx) == seq[((idx \div 2) % Len(seq)) + 1]

\* seq[idx % len(seq)] with Python's 0-based index
Cycle(seq, idx) == seq[(idx % Len(seq)) + 1]

(***************************************************************************)
(* Text.  A Python string is the sequence of its pieces (characters, or    *)
(* words that are never split); an f-string concatenates the renderings    *)
(* of its fields.                                                          *)
(***************************************************************************)
DigitChars == <<"0", "1", "2", "3", "4", "5", "6", "7", "8", "9">>

\* str(n) of a non-negative int
RECURSIVE StrOfInt(_)
StrOfInt(n) ==
    IF n < 10 THEN <<DigitChars[n + 1]>>
    ELSE StrOfInt(n \div 10) \o <<DigitChars[(n % 10) + 1]>>

\* str(b) of a bool
StrOfBool(b) == IF b THEN <<"True">> ELSE <<"False">>

\* sep.join(parts)
RECURSIVE Join(_, _)
Join(sep, parts) ==
    IF parts = <<>> THEN <<>>
    ELSE IF Len(parts) = 1 THEN parts[1]
    ELSE parts[1] \o sep \o Join(sep, Tail(parts))

\* the text of a format code: its tokens with "_" between them
StrOfFormat(format_code) ==
    Join(<<"_">>, [k \in 1..Len(format_code) |-> <<format_code[k]>>])

\* the digest of a text: md5 is treated as injective, so the digest is
\* kept as the text it is taken of
md5(raw) == raw

\* a digest that leaves the stack depth out
compute_hash_no_stack(format_code, hero, villain, pot_type, street, board, action, stack, is_icm) ==
    md5(Join(<<"|">>, <<StrOfFormat(format_code), <<hero>>, <<villain>>,
                        <<pot_type>>, <<street>>, board, <<action>>,
                        StrOfBool(is_icm)>>))

\* a digest that leaves the board out
compute_hash_no_board(format_code, hero, villain, pot_type, street, board, action, stack, is_icm) ==
    md5(Join(<<"|">>, <<StrOfFormat(format_code), <<hero>>, <<villain>>,
                        <<pot_type>>, <<street>>, <<action>>,
                        StrOfInt(stack), StrOfBool(is_icm)>>))

\* a hash that leaves the villain out
compute_hash_no_villain(format_code, hero, villain, pot_type, street, board, action, stack, is_icm) ==
    md5(Join(<<"|">>, <<StrOfFormat(format_code), <<hero>>, <<pot_type>>,
                        <<street>>, board, <<action>>, StrOfInt(stack),
                        StrOfBool(is_icm)>>))

(***************************************************************************)
(* seed_gto_scenarios.compute_hash: the md5 digest of                      *)
(* f"{format_code}|{hero}|{villain}|{pot_type}|{street}|{board}|{action}   *)
(* |{stack}|{is_icm}".                                                     *)
(***************************************************************************)
compute_hash(format_code, hero, villain, pot_type, street, board, action, stack, is_icm) ==
    md5(Join(<<"|">>, <<StrOfFormat(format_code), <<hero>>, <<villain>>,
                        <<pot_type>>, <<street>>, board, <<action>>,
                        StrOfInt(stack), StrOfBool(is_icm)>>))

\* pio_tree_generator.compute_hash(config): the md5 digest of
\* f"{format_code}|{hero_pos}|{pot_type}|{street}|{board}|{stack_bb}|{is_icm}"
pio_tree_generator_compute_hash(config) ==
    md5(Join(<<"|">>, <<StrOfFormat(config.format_code), <<config.hero_pos>>,
                        <<config.pot_type>>, <<config.street>>, config.board,
                        StrOfInt(config.stack_bb), StrOfBool(config.is_icm)>>))

\* piosolver_batch.compute_scenario_hash: the md5 digest of
\* f"{position}|{pot_type}|{street}|{','.join(board or [])}|{action_facing}
\* |{stack_depth}", board being the list of strings of the queue row
compute_scenario_hash(position, pot_type, street, board, action_facing, stack_depth) ==
    md5(Join(<<"|">>, <<<<position>>, <<pot_type>>, <<street>>,
                        Join(<<",">>, [k \in 1..Len(board) |-> <<board[k]>>]),
                        <<action_facing>>, StrOfInt(stack_depth)>>))

PositionsOf(format_code) ==
    IF Contains(format_code, "hu") THEN POSITIONS_BY_FORMAT.hu
    ELSE IF Contains(format_code, "3max") THEN POSITIONS_BY_FORMAT.max3
    ELSE IF Contains(format_code, "6max") THEN POSITIONS_BY_FORMAT.max6
    ELSE POSITIONS_BY_FORMAT.max9

\* the scenario the loop body builds for index idx
ScenarioAt(config, idx) ==
    LET format_code == config.format
        is_icm == Contains(format_code, "icm")
        stack == Cycle(config.stack_depths, idx)
        pos == Cycle(PositionsOf(format_code), idx)
        board == Cycle(BOARD_LIBRARY, idx)
        pot_type == Cycle(POT_TYPES, idx)
        action == Cycle(FACING_ACTIONS, idx)
    IN [scenario_hash |-> compute_hash(format_code, pos[1], pos[2], pot_type,
                                       "flop", board, action, stack, is_icm),
        format_code |-> format_code,
        hero_position |-> pos[1],
        villain_position |-> pos[2],
        pot_type |-> pot_type,
        street |-> "flop",
        board |-> board,
        action_facing |-> action,
        stack_depth_bb |-> stack,
        is_icm |-> is_icm,
        priority |-> config.priority,
        status |-> "pending"]

\* the index the enumeration starts from
FirstIdx == 0

\* an enumeration that counts the index down from count - 1
generate_scenarios_newest_first(config, count) ==
    [k \in 1..count |-> ScenarioAt(config, count - k)]

\* generate_scenarios_for_bucket: idx runs from 0 until count scenarios exist
generate_scenarios_for_bucket(config, count) ==
    [k \in 1..count |-> ScenarioAt(config, FirstIdx + k - 1)]


(***************************************************************************)
(* Catalogs.  BUCKETS of the source holds 94 buckets with targets of 300   *)
(* to 2000, BATCH_SIZE = 100 and a limit of 50000; the catalogs below keep *)
(* its shape (format, stack_depths, priority, target_count, in catalog     *)
(* order) at sizes TLC can explore.                                        *)
(***************************************************************************)
Bucket(format_code, stack, priority, target_count) ==
    [format |-> format_code, stack_depths |-> <<stack>>,
     priority |-> priority, target_count |-> target_count]

\* two classes of different value, the lower-valued one first in the catalog
CfgSmall ==
    [batch |-> 1, cap |-> 3,
     buckets |-> << Bucket(<<"9max","cash">>, 20, 5, 1),
                    Bucket(<<"hu","cash">>, 100, 9, 2) >>]

\* two equal-valued classes with targets 100 and 1000, seeded 10 at a time
CfgFair ==
    [batch |-> 10, cap |-> 50000,
     buckets |-> << Bucket(<<"6max","cash">>, 100, 9, 100),
                    Bucket(<<"spin","3max","icm">>, 15, 9, 1000) >>]

\* two classes whose targets lie beyond the limit, seeded 2 at a time
CfgSeed ==
    [batch |-> 2, cap |-> 5,
     buckets |-> << Bucket(<<"sng","hu">>, 10, 6, 3),
                    Bucket(<<"mtt","9max","chipev">>, 50, 6, 5) >>]

\* one class with target 3, seeded 2 at a time
CfgOne ==
    [batch |-> 2, cap |-> 50000,
     buckets |-> << Bucket(<<"mtt","6max","icm">>, 20, 10, 3) >>]

\* a class of priority 1 ahead, in the catalog, of a class of priority 10
CfgPrio ==
    [batch |-> 1, cap |-> 50000,
     buckets |-> << Bucket(<<"9max","cash">>, 200, 1, 2),
                    Bucket(<<"hu","cash">>, 20, 10, 2) >>]

\* four classes, two of priority 5 and two of priority 9, interleaved
CfgTies ==
    [batch |-> 1, cap |-> 50000,
     buckets |-> << Bucket(<<"mtt","9max","chipev">>, 50, 5, 2),
                    Bucket(<<"hu","cash">>, 100, 9, 1),
                    Bucket(<<"sng","6max">>, 25, 5, 2),
                    Bucket(<<"spin","3max","icm">>, 15, 9, 2) >>]

\* every catalog of three classes with priorities 3 or 8 and targets of 1
\* to MaxTarget, seeded 2 at a time
RoundCatalogs ==
    {[batch |-> 2, cap |-> 50000,
      buckets |-> << Bucket(<<"mtt","9max","chipev">>, 50, p[1], t[1]),
                     Bucket(<<"hu","cash">>, 100, p[2], t[2]),
                     Bucket(<<"sng","6max">>, 25, p[3], t[3]) >>] :
        p \in [1..3 -> {3, 8}], t \in [1..3 -> 1..MaxTarget]}

BucketIds == 1..Len(cfg.buckets)

(***************************************************************************)
(* The store.                                                              *)
(***************************************************************************)
RowOf(q, scenario_hash) == {i \in 1..Len(q) : q[i].scenario_hash = scenario_hash}

\* columns a conflicting upsert overwrites: those of the payload
MergeRow(row, payload) ==
    [f \in DOMAIN row |-> IF f \in DOMAIN payload THEN payload[f] ELSE row[f]]

NewRow(q, payload) ==
    [scenario_hash |-> payload.scenario_hash,
     format_code |-> payload.format_code,
     hero_position |-> payload.hero_position,
     villain_position |-> payload.villain_position,
     pot_type |-> payload.pot_type,
     street |-> payload.street,
     board |-> payload.board,
     action_facing |-> payload.action_facing,
     stack_depth_bb |-> payload.stack_depth_bb,
     is_icm |-> payload.is_icm,
     priority |-> payload.priority,
     status |-> payload.status,
     id |-> Len(q) + 1,
     started_at |-> NULL,
     completed_at |-> NULL,
     error_message |-> NULL]

\* a plain insert in place of the upsert
UpsertAppends(q, payload) == Append(q, NewRow(q, payload))

\* table("gto_solve_queue").upsert(scenario, on_conflict="scenario_hash"):
\* INSERT ... ON CONFLICT (scenario_hash) DO UPDATE SET <payload columns>
Upsert(q, payload) ==
    IF RowOf(q, payload.scenario_hash) # {}
    THEN LET i == CHOOSE j \in RowOf(q, payload.scenario_hash) : TRUE
         IN [q EXCEPT ![i] = MergeRow(q[i], payload)]
    ELSE Append(q, NewRow(q, payload))

\* count of gto_solutions rows with the bucket's format_code and stack depth
CountSolutions(sols, config) ==
    Cardinality({s \in sols : /\ s.format_code = config.format
                              /\ \E k \in 1..Len(config.stack_depths) :
                                    s.stack_depth_bb = config.stack_depths[k]})

(***************************************************************************)
(* BucketTracker.                                                          *)
(***************************************************************************)
load_from_db(sols) == [b \in BucketIds |-> CountSolutions(sols, cfg.buckets[b])]

IsIncomplete(cnt, b) == cnt[b] < cfg.buckets[b].target_count

\* a sort that puts a bucket ahead of those of its own priority
RECURSIVE InsertByPriorityTiesFirst(_, _)
InsertByPriorityTiesFirst(sorted, b) ==
    IF sorted = <<>> THEN <<b>>
    ELSE IF cfg.buckets[Head(sorted)].priority > cfg.buckets[b].priority
         THEN <<Head(sorted)>> \o InsertByPriorityTiesFirst(Tail(sorted), b)
         ELSE <<b>> \o sorted

\* list.sort(key = -priority) is stable: insert each bucket after the last
\* one whose priority is not lower
RECURSIVE InsertByPriority(_, _)
InsertByPriority(sorted, b) ==
    IF sorted = <<>> THEN <<b>>
    ELSE IF cfg.buckets[Head(sorted)].priority >= cfg.buckets[b].priority
         THEN <<Head(sorted)>> \o InsertByPriority(Tail(sorted), b)
         ELSE <<b>> \o sorted

RECURSIVE SortByPriority(_, _)
SortByPriority(sorted, rest) ==
    IF rest = <<>> THEN sorted
    ELSE SortByPriority(InsertByPriority(sorted, Head(rest)), Tail(rest))

\* the incomplete buckets in catalog order, not sorted
get_incomplete_unsorted(cnt) ==
    SelectSeq([b \in BucketIds |-> b], LAMBDA b : IsIncomplete(cnt, b))

\* only the first bucket of the sorted list: one bucket at a time is seeded
\* to completion
get_incomplete_top_only(cnt) ==
    LET all == SortByPriority(<<>>, SelectSeq([b \in BucketIds |-> b],
                                              LAMBDA b : IsIncomplete(cnt, b)))
    IN IF all = <<>> THEN <<>> ELSE <<Head(all)>>

get_incomplete_buckets(cnt) ==
    SortByPriority(<<>>, SelectSeq([b \in BucketIds |-> b],
                                   LAMBDA b : IsIncomplete(cnt, b)))

\* a whole batch whatever the bucket still lacks
ToSeedWholeBatch(cnt, b) == cfg.batch

\* the whole remainder in place of one batch
ToSeedRemainder(cnt, b) == cfg.buckets[b].target_count - cnt[b]

\* to_seed = min(BATCH_SIZE, target - current)
ToSeed(cnt, b) == Min(cfg.batch, cfg.buckets[b].target_count - cnt[b])

\* a limit ten times too high
OverLimitTenfold(total) == total > cfg.cap * 10

\* the safety limit tested after each round
OverLimit(total) == total > cfg.cap


(***************************************************************************)
(* seed_round_robin.                                                       *)
(***************************************************************************)
\* how the deployment schedules the processes
SeederMayRun ==
    deploy = "sequential" => \A w \in Workers : wpc[w] \in {"poll", "sleep"}

WorkerMayRun(w) ==
    /\ deploy # "concurrent" => w = 1
    /\ deploy = "sequential" => spc \in {"idle", "done"}

NoBatch == [bucket |-> 0, size |-> 0, clean |-> TRUE]

\* the for loop reaches the next bucket of the round whose batch is not
\* empty, or the end of the round
RECURSIVE NextBatch(_, _)
NextBatch(cnt, td) ==
    IF td = <<>> THEN [todo |-> <<>>, scenarios |-> <<>>]
    ELSE LET b == Head(td)
             batchOf == generate_scenarios_for_bucket(cfg.buckets[b], ToSeed(cnt, b))
         IN IF batchOf = <<>> THEN NextBatch(cnt, Tail(td))
            ELSE [todo |-> td, scenarios |-> batchOf]

BatchOf(nb) ==
    IF nb.todo = <<>> THEN NoBatch
    ELSE [bucket |-> Head(nb.todo), size |-> Len(nb.scenarios), clean |-> TRUE]

\* tracker = BucketTracker(); tracker.load_from_db(); total_seeded = 0
StartRun ==
    /\ SeederMayRun
    /\ runs' = runs + 1
    /\ counts' = load_from_db(solutions)
    /\ loaded' = counts'
    /\ total_seeded' = 0
    /\ round_num' = 0
    /\ incomplete' = <<>>
    /\ todo' = <<>>
    /\ scenarios' = <<>>
    /\ batch' = NoBatch
    /\ roundStart' = counts'
    /\ spc' = "round"
    /\ UNCHANGED <<envVars, queue, seededFull, workerVars>>

\* seed_round_robin() is called
SeedStart ==
    /\ spc = "idle"
    /\ StartRun

\* seed_round_robin() is called again after an earlier run has returned
SeedAgain ==
    /\ spc = "done"
    /\ runs < MaxRuns
    /\ StartRun

\* top of the while loop: leave when no bucket is incomplete, else open a round
SeedRound ==
    /\ SeederMayRun
    /\ spc = "round"
    /\ LET inc == get_incomplete_buckets(counts)
           nb == NextBatch(counts, inc)
       IN /\ incomplete' = inc
          /\ roundStart' = counts
          /\ IF inc = <<>>
             THEN /\ spc' = "done"
                  /\ UNCHANGED <<round_num, todo, scenarios, batch>>
             ELSE /\ round_num' = Min(round_num + 1, MaxRound)
                  /\ todo' = nb.todo
                  /\ scenarios' = nb.scenarios
                  /\ batch' = BatchOf(nb)
                  /\ spc' = IF nb.todo = <<>>
                            THEN (IF OverLimit(total_seeded) THEN "done" ELSE "round")
                            ELSE "insert"
    /\ UNCHANGED <<envVars, queue, counts, loaded, total_seeded, runs,
                   seededFull, workerVars>>

\* what follows one pass of the scenario loop: the next scenario, the next
\* bucket of the round, or the limit test that ends the round
AfterWrite(cnt, tot, clean) ==
    IF Tail(scenarios) # <<>>
    THEN /\ scenarios' = Tail(scenarios)
         /\ batch' = [batch EXCEPT !.clean = clean]
         /\ spc' = "insert"
         /\ UNCHANGED <<todo, seededFull>>
    ELSE LET nb == NextBatch(cnt, Tail(todo))
         IN /\ seededFull' =
                  IF clean /\ batch.size > seededFull[batch.bucket]
                  THEN [seededFull EXCEPT ![batch.bucket] = batch.size]
                  ELSE seededFull
            /\ todo' = nb.todo
            /\ scenarios' = nb.scenarios
            /\ batch' = BatchOf(nb)
            /\ spc' = IF nb.todo # <<>> THEN "insert"
                      ELSE IF OverLimit(tot) THEN "done" ELSE "round"

\* the upsert returns: tracker.increment(bucket_name); total_seeded += 1
SeedUpsert ==
    /\ SeederMayRun
    /\ spc = "insert"
    /\ queue' = Upsert(queue, Head(scenarios))
    /\ counts' = [counts EXCEPT ![Head(todo)] = @ + 1]
    /\ total_seeded' = total_seeded + 1
    /\ AfterWrite(counts', total_seeded', batch.clean)
    /\ UNCHANGED <<envVars, loaded, incomplete, round_num, runs, roundStart,
                   workerVars>>

\* the upsert raises: except Exception: pass
SeedUpsertRaises ==
    /\ SeederMayRun
    /\ spc = "insert"
    /\ AfterWrite(counts, total_seeded, FALSE)
    /\ UNCHANGED <<envVars, queue, counts, loaded, incomplete, total_seeded,
                   round_num, runs, roundStart, workerVars>>


(***************************************************************************)
(* process_queue: one worker loop per element of Workers.                  *)
(***************************************************************************)
(***************************************************************************)
(* parse_gto_frequencies.  A line of the solver output is kept as what the *)
(* parser looks at: the action words it contains, whether it contains "%", *)
(* and whether the token before the first "%" reads as a float, with its   *)
(* value.  A frequency is kept in hundredths (the parser divides the       *)
(* percentage by 100).  A dict is the sequence of its items in insertion   *)
(* order.                                                                  *)
(***************************************************************************)
ActionWords == <<"fold", "call", "raise">>

Item(key, value) == [k |-> key, v |-> value]

Keys(dict) == {dict[n].k : n \in 1..Len(dict)}

\* dict.get(key) of a key of the dict
Get(dict, key) == dict[CHOOSE n \in 1..Len(dict) : dict[n].k = key].v

\* dict[key] = value
Put(dict, key, value) ==
    IF key \in Keys(dict)
    THEN [n \in 1..Len(dict) |-> IF dict[n].k = key THEN Item(key, value) ELSE dict[n]]
    ELSE Append(dict, Item(key, value))

\* the first key of the dict, whatever its value
first_key(dict, get) == dict[1].k

\* max(dict, key=dict.get): the first key, in insertion order, of maximal value
max(dict, get) ==
    dict[CHOOSE n \in 1..Len(dict) :
            /\ \A m \in 1..Len(dict) : get[dict[m].k] <= get[dict[n].k]
            /\ \A m \in 1..(n - 1) : get[dict[m].k] < get[dict[n].k]].k

GetOf(dict) == [key \in Keys(dict) |-> Get(dict, key)]

\* the word the if / elif chain of the runner's parser acts on: the first
\* of fold, call, raise the line contains, provided the line contains "%"
WordOf(line) ==
    IF ~line.pct THEN "none"
    ELSE IF "fold" \in line.words THEN "fold"
    ELSE IF "call" \in line.words THEN "call"
    ELSE IF "raise" \in line.words THEN "raise"
    ELSE "none"

\* one pass of the runner's loop over the lines: try: freq = float(...) / 100;
\* frequencies[word] = freq; except: pass
RECURSIVE ParseLines(_, _)
ParseLines(frequencies, lines) ==
    IF lines = <<>> THEN frequencies
    ELSE LET line == Head(lines)
             word == WordOf(line)
         IN ParseLines(IF word # "none" /\ line.ok
                       THEN Put(frequencies, word, line.value)
                       ELSE frequencies,
                       Tail(lines))

\* gto_action = max(frequencies, key=frequencies.get) if frequencies
\*              else "unknown"
gto_action_of(frequencies) ==
    IF frequencies # <<>> THEN max(frequencies, GetOf(frequencies)) ELSE "unknown"

\* piosolver_batch_runner.parse_gto_frequencies
parse_gto_frequencies(raw_output) ==
    LET frequencies == ParseLines([n \in 1..Len(ActionWords) |->
                                      Item(ActionWords[n], 0)], raw_output)
    IN [frequencies |-> frequencies,
        ev_by_action |-> <<>>,
        gto_action |-> gto_action_of(frequencies)]

\* piosolver_batch.parse_gto_frequencies: every branch of its loop is
\* "pass", so frequencies stays {}
piosolver_batch_parse_gto_frequencies(raw_output) ==
    LET frequencies == <<>>
    IN [frequencies |-> frequencies,
        ev_by_action |-> <<>>,
        gto_action |-> gto_action_of(frequencies)]

ParseBy(s, raw_output) ==
    IF s = "piosolver_batch_runner" THEN parse_gto_frequencies(raw_output)
    ELSE piosolver_batch_parse_gto_frequencies(raw_output)

Reasons == {"Timeout after 3600s"}

\* a solver output without any line
EmptyOutput == <<>>

NoResult == [success |-> FALSE, error |-> NULL, raw_output |-> EmptyOutput]

\* what the solver call may return: {"success": True, "raw_output": ...} or
\* {"success": False, "error": reason}
SolverResults ==
    {[success |-> TRUE, error |-> NULL, raw_output |-> EmptyOutput]} \cup
    {[success |-> FALSE, error |-> reason, raw_output |-> EmptyOutput] :
        reason \in Reasons}

Pending(q) == {i \in 1..Len(q) : q[i].status = "pending"}

\* the query without its order clause
TopPendingUnordered(q) == {i \in 1..Len(q) : q[i].status = "pending"}

\* .eq("status", "pending").order("priority", desc=True).limit(1): the rows
\* the query may return (the order among equal priorities is the store's)
TopPending(q) ==
    {i \in Pending(q) : \A j \in Pending(q) : q[j].priority <= q[i].priority}

\* an update without its filter: every row is written
UpdateEvery(q, scenario_id, fields) ==
    [i \in 1..Len(q) |-> MergeRow(q[i], fields)]

\* table("gto_solve_queue").update(fields).eq("id", scenario_id)
Update(q, scenario_id, fields) ==
    [i \in 1..Len(q) |-> IF q[i].id = scenario_id THEN MergeRow(q[i], fields) ELSE q[i]]

\* an upsert that stores nothing
UpsertSolutionLost(sols, row) == sols

\* the column of gto_solutions on which a written row conflicts with a
\* stored one: the identity hash
SolutionKey(row) == row.scenario_hash

\* the row as stored, with the id the table gives it
Stored(row, id) ==
    [f \in DOMAIN row \cup {"id"} |-> IF f = "id" THEN id ELSE row[f]]

\* a plain insert: every written row is stored as a new row
UpsertSolutionInserts(sols, row) ==
    sols \cup {Stored(row, Cardinality(sols) + 1)}

\* table("gto_solutions").upsert(row): a stored row of the same key is
\* overwritten, else the row is inserted
UpsertSolution(sols, row) ==
    LET old == {s \in sols : SolutionKey(s) = SolutionKey(row)}
    IN IF old = {}
       THEN sols \cup {Stored(row, Cardinality(sols) + 1)}
       ELSE (sols \ old) \cup {Stored(row, (CHOOSE s \in old : TRUE).id)}

SolutionRow(scenario, parsed) ==
    [scenario_hash |-> scenario.scenario_hash,
     gto_action |-> parsed.gto_action,
     gto_frequencies |-> parsed.frequencies,
     ev_by_action |-> parsed.ev_by_action,
     format_code |-> <<>>,    \* the column is not in the payload: NULL
     villain_position |-> scenario.villain_position,
     stack_depth_bb |-> scenario.stack_depth_bb,
     pot_type |-> scenario.pot_type,
     street |-> scenario.street,
     board |-> scenario.board,
     action_facing |-> scenario.action_facing]

HandedOf(i) == IF i \in DOMAIN handed THEN handed[i] ELSE 0

\* the query returns a row
WQuery(w) ==
    /\ WorkerMayRun(w)
    /\ wpc[w] = "poll"
    /\ \E i \in TopPending(queue) :
          /\ cur' = [cur EXCEPT ![w] = queue[i].id]
          /\ wpc' = [wpc EXCEPT ![w] = "claim"]
    /\ UNCHANGED <<envVars, queue, solutions, handed, result, seederVars>>

\* the query returns nothing: time.sleep(30); continue
WNoPending(w) ==
    /\ WorkerMayRun(w)
    /\ wpc[w] = "poll"
    /\ TopPending(queue) = {}
    /\ wpc' = [wpc EXCEPT ![w] = "sleep"]
    /\ UNCHANGED <<envVars, queue, solutions, cur, handed, result, seederVars>>

WWake(w) ==
    /\ WorkerMayRun(w)
    /\ wpc[w] = "sleep"
    /\ wpc' = [wpc EXCEPT ![w] = "poll"]
    /\ UNCHANGED <<envVars, queue, solutions, cur, handed, result, seederVars>>

\* the update that claims a row only while it is still pending
MarkSolvingIfPending(q, scenario_id) ==
    IF q[scenario_id].status = "pending"
    THEN Update(q, scenario_id, [status |-> "solving", started_at |-> "set"])
    ELSE q

\* update({"status": "solving", "started_at": now}).eq("id", scenario_id)
MarkSolving(q, scenario_id) ==
    Update(q, scenario_id, [status |-> "solving", started_at |-> "set"])

\* "Mark as solving", then the tree file is written and the solver runs and
\* returns its result
WMarkSolving(w) ==
    /\ WorkerMayRun(w)
    /\ wpc[w] = "claim"
    /\ queue' = MarkSolving(queue, cur[w])
    /\ handed' = (cur[w] :> Min(HandedOf(cur[w]) + 1, 2)) @@ handed
    /\ \E r \in SolverResults : result' = [result EXCEPT ![w] = r]
    /\ wpc' = [wpc EXCEPT ![w] = "solve"]
    /\ UNCHANGED <<envVars, solutions, cur, seederVars>>

\* if result["success"]: the Solution is upserted
WSolved(w) ==
    /\ WorkerMayRun(w)
    /\ wpc[w] = "solve"
    /\ result[w].success
    /\ solutions' = UpsertSolution(solutions,
                       SolutionRow(queue[cur[w]],
                                   ParseBy(script[w], result[w].raw_output)))
    /\ wpc' = [wpc EXCEPT ![w] = "upserted"]
    /\ UNCHANGED <<envVars, queue, cur, handed, result, seederVars>>

\* "Mark complete"
WMarkCompleted(w) ==
    /\ WorkerMayRun(w)
    /\ wpc[w] = "upserted"
    /\ queue' = Update(queue, cur[w], [status |-> "completed", completed_at |-> "set"])
    /\ wpc' = [wpc EXCEPT ![w] = "poll"]
    /\ cur' = [cur EXCEPT ![w] = 0]
    /\ UNCHANGED <<envVars, solutions, handed, result, seederVars>>

\* a failed update that also sends the row to the back of the line
FailedFieldsDemoted(error) ==
    [status |-> "failed", error_message |-> error, completed_at |-> "set",
     priority |-> 0]

\* a failed update that puts the row back in line
FailedFieldsRetry(error) ==
    [status |-> "pending", error_message |-> error, completed_at |-> "set"]

\* a failed update that drops the reason
FailedFieldsNoMessage(error) == [status |-> "failed", completed_at |-> "set"]

\* {"status": "failed", "error_message": error, "completed_at": now}
FailedFields(error) ==
    [status |-> "failed", error_message |-> error, completed_at |-> "set"]

\* else: "Mark as failed"
WMarkFailed(w) ==
    /\ WorkerMayRun(w)
    /\ wpc[w] = "solve"
    /\ ~result[w].success
    /\ queue' = Update(queue, cur[w], FailedFields(result[w].error))
    /\ handed' = (cur[w] :> 0) @@ handed
    /\ wpc' = [wpc EXCEPT ![w] = "poll"]
    /\ cur' = [cur EXCEPT ![w] = 0]
    /\ UNCHANGED <<envVars, solutions, result, seederVars>>

(***************************************************************************)
(* Exceptions in process_queue.  A store call, or the local work that      *)
(* follows it (writing the tree file, reading the solver output), may      *)
(* raise at any position of the loop.                                      *)
(***************************************************************************)
StoreError == "APIError"    \* str(e) of the exception raised

\* piosolver_batch_runner.py: the whole loop body is inside try;
\* except Exception as e: print(...); time.sleep(10)
WRaisesCaught(w) ==
    /\ WorkerMayRun(w)
    /\ script[w] = "piosolver_batch_runner"
    /\ wpc[w] \in {"poll", "claim", "solve", "upserted"}
    /\ wpc' = [wpc EXCEPT ![w] = "backoff"]
    /\ cur' = [cur EXCEPT ![w] = 0]
    /\ UNCHANGED <<envVars, queue, solutions, handed, result, seederVars>>

\* the sleep of the except clause ends and the loop goes on
WBackoff(w) ==
    /\ WorkerMayRun(w)
    /\ wpc[w] = "backoff"
    /\ wpc' = [wpc EXCEPT ![w] = "poll"]
    /\ UNCHANGED <<envVars, queue, solutions, cur, handed, result, seederVars>>

\* piosolver_batch.py: the query and the "solving" update stand before the
\* try, and the update of the except clause is not guarded either: the
\* exception leaves process_queue
WRaisesUncaught(w) ==
    /\ WorkerMayRun(w)
    /\ script[w] = "piosolver_batch"
    /\ wpc[w] \in {"poll", "claim", "handler"}
    /\ wpc' = [wpc EXCEPT ![w] = "exited"]
    /\ cur' = [cur EXCEPT ![w] = 0]
    /\ UNCHANGED <<envVars, queue, solutions, handed, result, seederVars>>

\* piosolver_batch.py: an exception inside the try reaches "except Exception"
WRaisesHandled(w) ==
    /\ WorkerMayRun(w)
    /\ script[w] = "piosolver_batch"
    /\ wpc[w] \in {"solve", "upserted"}
    /\ wpc' = [wpc EXCEPT ![w] = "handler"]
    /\ UNCHANGED <<envVars, queue, solutions, cur, handed, result, seederVars>>

\* piosolver_batch.py, except clause: the row is marked failed with str(e)
WHandlerMarksFailed(w) ==
    /\ WorkerMayRun(w)
    /\ wpc[w] = "handler"
    /\ queue' = Update(queue, cur[w], FailedFields(StoreError))
    /\ handed' = (cur[w] :> 0) @@ handed
    /\ wpc' = [wpc EXCEPT ![w] = "poll"]
    /\ cur' = [cur EXCEPT ![w] = 0]
    /\ UNCHANGED <<envVars, solutions, result, seederVars>>

(***************************************************************************)
(* The identity hashes of two scenarios, computed by each script.          *)
(***************************************************************************)
HashFormats == {<<"hu","cash">>, <<"spin","3max","icm">>}

HashStacks == {10, 100}

\* scenario field tuples over the domains the catalog draws from
ScenarioDomain ==
    UNION {{[format_code |-> f,
             hero |-> PositionsOf(f)[p][1],
             villain |-> PositionsOf(f)[p][2],
             pot_type |-> POT_TYPES[t],
             street |-> "flop",
             board |-> BOARD_LIBRARY[bd],
             action |-> FACING_ACTIONS[a],
             stack |-> st,
             is_icm |-> icm] :
                p \in 1..Len(PositionsOf(f)), t \in 1..Len(POT_TYPES),
                bd \in 1..HashBoards, a \in 1..Len(FACING_ACTIONS),
                st \in HashStacks, icm \in BOOLEAN} : f \in HashFormats}

\* the hash the seeder gives the scenario
SeedHash(sc) ==
    compute_hash(sc.format_code, sc.hero, sc.villain, sc.pot_type, sc.street,
                 sc.board, sc.action, sc.stack, sc.is_icm)

\* the hash pio_tree_generator gives the TreeConfig of the scenario
TreeHash(sc) ==
    pio_tree_generator_compute_hash(
        [format_code |-> sc.format_code, hero_pos |-> sc.hero,
         villain_pos |-> sc.villain, stack_bb |-> sc.stack,
         pot_type |-> sc.pot_type, street |-> sc.street, board |-> sc.board,
         is_icm |-> sc.is_icm])

\* the hash piosolver_batch gives the scenario, its board being the list
\* the queue row holds
BatchHash(sc) ==
    compute_scenario_hash(sc.hero, sc.pot_type, sc.street, sc.board, sc.action,
                          sc.stack)

HashBoth ==
    /\ deploy = "hashing"
    /\ ~hx.done
    /\ hx' = [done |-> TRUE, a |-> hx.a, b |-> hx.b,
              hash_a |-> SeedHash(hx.a), hash_b |-> SeedHash(hx.b),
              tree_a |-> TreeHash(hx.a), batch_a |-> BatchHash(hx.a)]
    /\ UNCHANGED <<cfg, deploy, script, queue, seederVars, workerVars>>

(***************************************************************************)
(* The parser applied to a solver output.                                  *)
(***************************************************************************)
Percentages == {0, 30, 70}

\* lines as the parser sees them: without "%", with "%" after a token that
\* does not read as a float, with "%" after a percentage
LineKinds ==
    UNION {{[words |-> ws, pct |-> FALSE, ok |-> FALSE, value |-> 0],
            [words |-> ws, pct |-> TRUE, ok |-> FALSE, value |-> 0]} \cup
           {[words |-> ws, pct |-> TRUE, ok |-> TRUE, value |-> v] :
               v \in Percentages} :
                  ws \in {{}, {"fold"}, {"call"}, {"raise"}, {"fold", "call"}}}

RawOutputs == UNION {[1..n -> LineKinds] : n \in 0..MaxLines}

ParseOutput ==
    /\ deploy = "parsing"
    /\ ~hx.done
    /\ hx' = [done |-> TRUE, raw |-> hx.raw, parsed |-> ParseBy(script[1], hx.raw)]
    /\ UNCHANGED <<cfg, deploy, script, queue, seederVars, workerVars>>

(***************************************************************************)
(* Specifications.                                                         *)
(***************************************************************************)
Scripts == {"piosolver_batch_runner", "piosolver_batch"}

NoExperiment == [done |-> FALSE]

InitBase(config, deployments, scripts) ==
    /\ cfg = config
    /\ deploy \in deployments
    /\ queue = <<>>
    /\ solutions = {}
    /\ spc = "idle"
    /\ counts = [b \in 1..Len(config.buckets) |-> 0]
    /\ loaded = counts
    /\ incomplete = <<>>
    /\ todo = <<>>
    /\ scenarios = <<>>
    /\ total_seeded = 0
    /\ round_num = 0
    /\ runs = 0
    /\ batch = NoBatch
    /\ seededFull = [b \in 1..Len(config.buckets) |-> 0]
    /\ wpc = [w \in Workers |-> "poll"]
    /\ cur = [w \in Workers |-> 0]
    /\ handed = <<>>
    /\ result = [w \in Workers |-> NoResult]
    /\ script \in {[w \in Workers |-> s] : s \in scripts}
    /\ roundStart = counts

InitScripted(config, deployments, scripts) ==
    /\ InitBase(config, deployments, scripts)
    /\ hx = NoExperiment

InitWith(config, deployments) ==
    InitScripted(config, deployments, {"piosolver_batch_runner"})

Init == InitWith(CfgSmall, {"concurrent", "single", "sequential"})

Seeder ==
    \/ SeedStart
    \/ SeedRound
    \/ SeedUpsert
    \/ SeedUpsertRaises

Next ==
    \/ SeedStart
    \/ SeedRound
    \/ SeedUpsert
    \/ SeedUpsertRaises
    \/ \E w \in Workers : WQuery(w)
    \/ \E w \in Workers : WNoPending(w)
    \/ \E w \in Workers : WWake(w)
    \/ \E w \in Workers : WMarkSolving(w)
    \/ \E w \in Workers : WSolved(w)
    \/ \E w \in Workers : WMarkCompleted(w)
    \/ \E w \in Workers : WMarkFailed(w)

Spec == Init /\ [][Next]_vars

\* the seeder alone, run repeatedly, on a store that may raise
InitSeed == InitWith(CfgSeed, {"seeding"})

NextSeed ==
    \/ SeedStart
    \/ SeedAgain
    \/ SeedRound
    \/ SeedUpsert
    \/ SeedUpsertRaises

SpecSeed == InitSeed /\ [][NextSeed]_vars

\* the same on the small catalog; the seeder process is scheduled as long as
\* it has a step to take, and whether a store call returns or raises is the
\* store's choice
InitTerm == InitWith(CfgSmall, {"seeding"})

SpecTerm == InitTerm /\ [][NextSeed]_vars /\ WF_vars(Seeder)

\* the seeder alone on a store that never raises
InitFair == InitWith(CfgFair, {"seeding"})

NextReliableSeed == SeedStart \/ SeedRound \/ SeedUpsert

SpecFair == InitFair /\ [][NextReliableSeed]_vars

\* one seeding run on an empty store that never raises, with one worker
InitOne == InitWith(CfgOne, {"single"})

NextOne ==
    \/ SeedStart
    \/ SeedRound
    \/ SeedUpsert
    \/ \E w \in Workers : WQuery(w)
    \/ \E w \in Workers : WNoPending(w)
    \/ \E w \in Workers : WWake(w)
    \/ \E w \in Workers : WMarkSolving(w)
    \/ \E w \in Workers : WSolved(w)
    \/ \E w \in Workers : WMarkCompleted(w)
    \/ \E w \in Workers : WMarkFailed(w)

SpecOne == InitOne /\ [][NextOne]_vars

\* one seeding run of the two-priority catalog on an empty store that never
\* raises, with one worker polling
InitPrio == InitWith(CfgPrio, {"single"})

SpecPrio == InitPrio /\ [][NextOne]_vars

\* the seeder alone on the four-class catalog, on a store that may raise
InitTies == InitWith(CfgTies, {"seeding"})

NextTies ==
    \/ SeedStart
    \/ SeedRound
    \/ SeedUpsert
    \/ SeedUpsertRaises

SpecTies == InitTies /\ [][NextTies]_vars

\* one seeding run of any catalog of RoundCatalogs on an empty store that
\* never raises
InitRounds == \E c \in RoundCatalogs : InitWith(c, {"seeding"})

SpecRounds == InitRounds /\ [][NextReliableSeed]_vars

\* two scenarios are drawn and hashed
InitHash ==
    /\ InitBase(CfgOne, {"hashing"}, {"piosolver_batch_runner"})
    /\ hx \in {[done |-> FALSE, a |-> x, b |-> y] :
                  x \in ScenarioDomain, y \in ScenarioDomain}

NextHash == HashBoth

SpecHash == InitHash /\ [][NextHash]_vars

\* ---- the enumerator as a pure function --------------------------------

\* the longest list asked of the enumerator
MaxCount == 20

\* BUCKETS entries, one for each table of position pairs
EnumBuckets ==
    { Bucket(<<"hu","cash">>, 100, 9, 1000),
      Bucket(<<"mtt","3max","icm">>, 15, 10, 800),
      Bucket(<<"6max","cash">>, 100, 10, 2000),
      Bucket(<<"9max","cash">>, 20, 5, 400) }

\* generate_scenarios_for_bucket called for one bucket with two counts
Enumerate ==
    /\ deploy = "enumerating"
    /\ ~hx.done
    /\ hx' = [done |-> TRUE, config |-> hx.config, n |-> hx.n, m |-> hx.m,
              short |-> generate_scenarios_for_bucket(hx.config, hx.n),
              long |-> generate_scenarios_for_bucket(hx.config, hx.m)]
    /\ UNCHANGED <<cfg, deploy, script, queue, seederVars, workerVars>>

InitEnum ==
    /\ InitBase(CfgOne, {"enumerating"}, {"piosolver_batch_runner"})
    /\ hx \in {[done |-> FALSE, config |-> c, n |-> n, m |-> m] :
                  c \in EnumBuckets, n \in 0..MaxCount, m \in 0..MaxCount}

NextEnum == Enumerate

SpecEnum == InitEnum /\ [][NextEnum]_vars

\* ---- one index against one batch of the enumerator --------------------

\* the largest index drawn
MaxIndex == 800

BATCH_SIZE == 100

\* the scenario of one index, and the first batch of the bucket
ScenarioAgainstBatch ==
    /\ deploy = "repeating"
    /\ ~hx.done
    /\ hx' = [done |-> TRUE, config |-> hx.config, j |-> hx.j,
              at |-> ScenarioAt(hx.config, hx.j),
              batch |-> generate_scenarios_for_bucket(hx.config, BATCH_SIZE)]
    /\ UNCHANGED <<cfg, deploy, script, queue, seederVars, workerVars>>

InitRepeat ==
    /\ InitBase(CfgOne, {"repeating"}, {"piosolver_batch_runner"})
    /\ hx \in {[done |-> FALSE, config |-> c, j |-> j] :
                  c \in EnumBuckets, j \in 0..MaxIndex}

NextRepeat == ScenarioAgainstBatch

SpecRepeat == InitRepeat /\ [][NextRepeat]_vars

\* ---- scenarios of two buckets of the catalog ---------------------------

\* the catalog of seed_gto_scenarios.py, in its order
BUCKETS ==
    << Bucket(<<"6max", "cash">>, 200, 9, 1000),
       Bucket(<<"6max", "cash">>, 100, 10, 2000),
       Bucket(<<"6max", "cash">>, 80, 9, 1000),
       Bucket(<<"6max", "cash">>, 60, 9, 1000),
       Bucket(<<"6max", "cash">>, 40, 9, 1000),
       Bucket(<<"6max", "cash">>, 20, 8, 800),
       Bucket(<<"hu", "cash">>, 200, 8, 800),
       Bucket(<<"hu", "cash">>, 100, 9, 1000),
       Bucket(<<"hu", "cash">>, 80, 8, 800),
       Bucket(<<"hu", "cash">>, 60, 8, 800),
       Bucket(<<"hu", "cash">>, 40, 8, 800),
       Bucket(<<"hu", "cash">>, 20, 7, 600),
       Bucket(<<"9max", "cash">>, 200, 6, 600),
       Bucket(<<"9max", "cash">>, 100, 7, 800),
       Bucket(<<"9max", "cash">>, 80, 6, 600),
       Bucket(<<"9max", "cash">>, 60, 6, 600),
       Bucket(<<"9max", "cash">>, 40, 6, 600),
       Bucket(<<"9max", "cash">>, 20, 5, 400),
       Bucket(<<"spin", "3max", "chipev">>, 25, 8, 600),
       Bucket(<<"spin", "3max", "chipev">>, 20, 9, 800),
       Bucket(<<"spin", "3max", "chipev">>, 18, 9, 800),
       Bucket(<<"spin", "3max", "chipev">>, 15, 10, 1000),
       Bucket(<<"spin", "3max", "chipev">>, 12, 10, 1000),
       Bucket(<<"spin", "3max", "chipev">>, 10, 9, 800),
       Bucket(<<"spin", "3max", "chipev">>, 8, 8, 600),
       Bucket(<<"spin", "3max", "icm">>, 25, 8, 600),
       Bucket(<<"spin", "3max", "icm">>, 20, 9, 800),
       Bucket(<<"spin", "3max", "icm">>, 18, 9, 800),
       Bucket(<<"spin", "3max", "icm">>, 15, 10, 1000),
       Bucket(<<"spin", "3max", "icm">>, 12, 10, 1000),
       Bucket(<<"spin", "3max", "icm">>, 10, 9, 800),
       Bucket(<<"spin", "3max", "icm">>, 8, 8, 600),
       Bucket(<<"spin", "hu", "chipev">>, 15, 9, 600),
       Bucket(<<"spin", "hu", "chipev">>, 10, 9, 600),
       Bucket(<<"spin", "hu", "icm">>, 15, 9, 600),
       Bucket(<<"spin", "hu", "icm">>, 10, 9, 600),
       Bucket(<<"mtt", "6max", "chipev">>, 50, 7, 600),
       Bucket(<<"mtt", "6max", "chipev">>, 40, 8, 800),
       Bucket(<<"mtt", "6max", "chipev">>, 30, 9, 1000),
       Bucket(<<"mtt", "6max", "chipev">>, 25, 9, 1000),
       Bucket(<<"mtt", "6max", "chipev">>, 20, 10, 1200),
       Bucket(<<"mtt", "6max", "chipev">>, 15, 10, 1200),
       Bucket(<<"mtt", "6max", "chipev">>, 12, 9, 1000),
       Bucket(<<"mtt", "6max", "chipev">>, 10, 9, 1000),
       Bucket(<<"mtt", "6max", "chipev">>, 8, 8, 800),
       Bucket(<<"mtt", "6max", "icm">>, 30, 9, 800),
       Bucket(<<"mtt", "6max", "icm">>, 25, 10, 1000),
       Bucket(<<"mtt", "6max", "icm">>, 20, 10, 1200),
       Bucket(<<"mtt", "6max", "icm">>, 15, 10, 1200),
       Bucket(<<"mtt", "6max", "icm">>, 12, 9, 1000),
       Bucket(<<"mtt", "6max", "icm">>, 10, 9, 1000),
       Bucket(<<"mtt", "6max", "icm">>, 8, 8, 800),
       Bucket(<<"mtt", "9max", "chipev">>, 50, 6, 500),
       Bucket(<<"mtt", "9max", "chipev">>, 40, 7, 600),
       Bucket(<<"mtt", "9max", "chipev">>, 30, 8, 800),
       Bucket(<<"mtt", "9max", "chipev">>, 25, 8, 800),
       Bucket(<<"mtt", "9max", "chipev">>, 20, 9, 1000),
       Bucket(<<"mtt", "9max", "chipev">>, 15, 9, 1000),
       Bucket(<<"mtt", "9max", "chipev">>, 10, 8, 800),
       Bucket(<<"mtt", "9max", "icm">>, 25, 9, 800),
       Bucket(<<"mtt", "9max", "icm">>, 20, 9, 1000),
       Bucket(<<"mtt", "9max", "icm">>, 15, 9, 1000),
       Bucket(<<"mtt", "9max", "icm">>, 10, 8, 800),
       Bucket(<<"mtt", "3max", "chipev">>, 25, 8, 500),
       Bucket(<<"mtt", "3max", "chipev">>, 20, 9, 600),
       Bucket(<<"mtt", "3max", "chipev">>, 15, 9, 600),
       Bucket(<<"mtt", "3max", "chipev">>, 10, 8, 500),
       Bucket(<<"mtt", "3max", "icm">>, 25, 9, 600),
       Bucket(<<"mtt", "3max", "icm">>, 20, 10, 800),
       Bucket(<<"mtt", "3max", "icm">>, 15, 10, 800),
       Bucket(<<"mtt", "3max", "icm">>, 10, 9, 600),
       Bucket(<<"mtt", "hu", "chipev">>, 25, 8, 400),
       Bucket(<<"mtt", "hu", "chipev">>, 20, 8, 400),
       Bucket(<<"mtt", "hu", "chipev">>, 15, 8, 400),
       Bucket(<<"mtt", "hu", "chipev">>, 10, 8, 400),
       Bucket(<<"mtt", "hu", "icm">>, 25, 9, 500),
       Bucket(<<"mtt", "hu", "icm">>, 20, 9, 500),
       Bucket(<<"mtt", "hu", "icm">>, 15, 9, 500),
       Bucket(<<"mtt", "hu", "icm">>, 10, 8, 400),
       Bucket(<<"sng", "9max", "chipev">>, 30, 6, 400),
       Bucket(<<"sng", "9max", "chipev">>, 20, 7, 500),
       Bucket(<<"sng", "9max", "chipev">>, 15, 7, 500),
       Bucket(<<"sng", "9max", "icm">>, 25, 8, 500),
       Bucket(<<"sng", "9max", "icm">>, 20, 8, 600),
       Bucket(<<"sng", "9max", "icm">>, 15, 8, 600),
       Bucket(<<"sng", "9max", "icm">>, 10, 7, 500),
       Bucket(<<"sng", "6max", "icm">>, 25, 7, 400),
       Bucket(<<"sng", "6max", "icm">>, 20, 8, 500),
       Bucket(<<"sng", "6max", "icm">>, 15, 8, 500),
       Bucket(<<"sng", "6max", "icm">>, 10, 7, 400),
       Bucket(<<"sng", "hu">>, 25, 7, 300),
       Bucket(<<"sng", "hu">>, 20, 7, 400),
       Bucket(<<"sng", "hu">>, 15, 7, 400),
       Bucket(<<"sng", "hu">>, 10, 6, 300) >>

\* the largest index drawn for either bucket
MaxCrossIndex == 1

\* one scenario of each of two buckets
EnumerateTwoBuckets ==
    /\ deploy = "crossing"
    /\ ~hx.done
    /\ hx' = [done |-> TRUE, a |-> hx.a, b |-> hx.b, i |-> hx.i, k |-> hx.k,
              of_a |-> ScenarioAt(BUCKETS[hx.a], hx.i),
              of_b |-> ScenarioAt(BUCKETS[hx.b], hx.k)]
    /\ UNCHANGED <<cfg, deploy, script, queue, seederVars, workerVars>>

InitCross ==
    /\ InitBase(CfgOne, {"crossing"}, {"piosolver_batch_runner"})
    /\ hx \in {[done |-> FALSE, a |-> a, b |-> b, i |-> i, k |-> k] :
                  a \in 1..Len(BUCKETS), b \in 1..Len(BUCKETS),
                  i \in 0..MaxCrossIndex, k \in 0..MaxCrossIndex}

NextCross == EnumerateTwoBuckets

SpecCross == InitCross /\ [][NextCross]_vars

\* ---- the failed update as a pure function ----------------------------

\* the longest failure reason drawn
MaxReason == 120

\* the one length the failure branch cuts a reason to, for the console
PrintedLength == 100

ReasonChars == {"E", "x"}

\* result.stderr or result.stdout of a solver that returned non-zero, or
\* str(e): text of any length
SolverErrors ==
    {[k \in 1..n |-> c] : n \in 0..MaxReason, c \in ReasonChars}

\* the failed update built for one reason
FailWith ==
    /\ deploy = "failing"
    /\ ~hx.done
    /\ hx' = [done |-> TRUE, reason |-> hx.reason,
              update |-> FailedFields(hx.reason),
              printed |-> SubSeq(hx.reason, 1, Min(Len(hx.reason), PrintedLength))]
    /\ UNCHANGED <<cfg, deploy, script, queue, seederVars, workerVars>>

InitFail ==
    /\ InitBase(CfgOne, {"failing"}, {"piosolver_batch_runner"})
    /\ hx \in {[done |-> FALSE, reason |-> r] : r \in SolverErrors}

NextFail == FailWith

SpecFail == InitFail /\ [][NextFail]_vars

\* a solver output is drawn and parsed by either script
InitParse ==
    /\ InitBase(CfgOne, {"parsing"}, Scripts)
    /\ hx \in {[done |-> FALSE, raw |-> r] : r \in RawOutputs}

NextParse == ParseOutput

SpecParse == InitParse /\ [][NextParse]_vars

\* KeyboardInterrupt reaches the worker wherever it is in its loop: the
\* runner's except clause breaks out of the loop, the batch script has no
\* handler and ends; run_piosolver and run_solve catch only TimeoutExpired and
\* Exception, so an interrupt during the solver call comes through them. No
\* store call is made on the way out.
WInterrupt(w) ==
    /\ WorkerMayRun(w)
    /\ wpc[w] \notin {"exited", "stopped"}
    /\ wpc' = [wpc EXCEPT ![w] = "stopped"]
    /\ UNCHANGED <<envVars, queue, solutions, cur, handed, result, seederVars>>

\* one pass of the worker's while loop body, or a part of it
WorkerStep(w) ==
    \/ WQuery(w)
    \/ WNoPending(w)
    \/ WWake(w)
    \/ WMarkSolving(w)
    \/ WSolved(w)
    \/ WMarkCompleted(w)
    \/ WMarkFailed(w)

\* the same, the worker process being scheduled as long as it runs: its
\* sleeps end, its store calls return, and the solver call returns (the
\* subprocess is given a timeout)
InitLive == InitScripted(CfgOne, {"single"}, Scripts)

SpecLive == InitLive /\ [][NextOne]_vars /\ WF_vars(WorkerStep(1))

\* a step of the runner's loop, the store being free to raise under it
RunnerStep(w) ==
    \/ WorkerStep(w)
    \/ WRaisesCaught(w)
    \/ WBackoff(w)

\* one seeding run and one worker of piosolver_batch_runner.py on a store
\* whose calls may raise under the worker; the worker keeps running
NextRunner ==
    \/ NextOne
    \/ \E w \in Workers : WRaisesCaught(w)
    \/ \E w \in Workers : WBackoff(w)

SpecRunner == InitOne /\ [][NextRunner]_vars /\ WF_vars(RunnerStep(1))

\* one seeding run and one worker of either script that the operator may
\* interrupt, on a store that accepts every call
NextStop ==
    \/ NextOne
    \/ \E w \in Workers : WInterrupt(w)

SpecStop == InitLive /\ [][NextStop]_vars

\* one seeding run with one or two workers of either script, on a store
\* whose calls may raise under the worker
InitWork == InitScripted(CfgOne, {"single", "concurrent"}, Scripts)

NextWork ==
    \/ SeedStart
    \/ SeedRound
    \/ SeedUpsert
    \/ \E w \in Workers : WQuery(w)
    \/ \E w \in Workers : WNoPending(w)
    \/ \E w \in Workers : WWake(w)
    \/ \E w \in Workers : WMarkSolving(w)
    \/ \E w \in Workers : WSolved(w)
    \/ \E w \in Workers : WMarkCompleted(w)
    \/ \E w \in Workers : WMarkFailed(w)
    \/ \E w \in Workers : WRaisesCaught(w)
    \/ \E w \in Workers : WBackoff(w)
    \/ \E w \in Workers : WRaisesUncaught(w)
    \/ \E w \in Workers : WRaisesHandled(w)
    \/ \E w \in Workers : WHandlerMarksFailed(w)

SpecWork == InitWork /\ [][NextWork]_vars

(***************************************************************************)
(* Properties.                                                             *)
(***************************************************************************)
Rows == 1..Len(queue)

Queried(w) == wpc[w] = "poll" /\ wpc'[w] = "claim"

\* C1: with exactly one worker, no scenario is handed to the solver more
\* than once unless an earlier attempt of it ended in failed.
C1_SolvedOnce ==
    deploy \in {"single", "sequential"} => \A i \in DOMAIN handed : handed[i] <= 1

\* C2: a row's status moves only pending -> solving, solving -> completed
\* and solving -> failed, and a new row starts as pending.
C2_Lifecycle ==
    [][\A i \in 1..Len(queue') :
          IF i \in Rows
          THEN \/ queue'[i].status = queue[i].status
               \/ <<queue[i].status, queue'[i].status>> \in
                     {<<"pending", "solving">>, <<"solving", "completed">>,
                      <<"solving", "failed">>}
          ELSE queue'[i].status = "pending"]_vars

\* C3: a row that has reached completed or failed (it carries an end
\* timestamp from then on) is never returned by a later top-pending query.
C3_TerminalFinal ==
    [][\A w \in Workers : Queried(w) => queue[cur'[w]].completed_at = NULL]_vars

\* C4: the row a query returns is pending and no pending row has a higher
\* priority; with one worker and no concurrent seeding this still holds at
\* the moment the row is claimed.
C4_TopPriority ==
    /\ [][\A w \in Workers : Queried(w) =>
             /\ queue[cur'[w]].status = "pending"
             /\ \A j \in Rows : queue[j].status = "pending" =>
                                   queue[j].priority <= queue[cur'[w]].priority]_vars
    /\ [](deploy = "sequential" =>
             \A w \in Workers : wpc[w] = "claim" =>
                /\ queue[cur[w]].status = "pending"
                /\ \A j \in Rows : queue[j].status = "pending" =>
                                      queue[j].priority <= queue[cur[w]].priority)

\* a worker is about to claim the higher-valued row while a lower-valued
\* row is pending as well, no seeding under way
C4_Witness ==
    /\ deploy = "sequential"
    /\ \E w \in Workers :
          /\ wpc[w] = "claim"
          /\ \E j \in Rows : /\ queue[j].status = "pending"
                             /\ queue[j].priority < queue[cur[w]].priority

\* C5: a seeder write never changes a row that is already in the queue.
C5_SeederOnlyInserts ==
    [][total_seeded' = total_seeded + 1 => \A i \in Rows : queue'[i] = queue[i]]_vars

\* C6: while the seeder writes a batch of a bucket for which a batch at least
\* as long has been written in full before, every write collides: no row is
\* added and the queue stays as the first seeding left it.
C6_Idempotent ==
    [][(spc = "insert" /\ batch.size <= seededFull[batch.bucket]) =>
          /\ RowOf(queue, Head(scenarios).scenario_hash) # {}
          /\ Len(queue') = Len(queue)
          /\ queue' = queue]_vars

\* the first scenario of a second batch of two has been written again
C6_Witness ==
    /\ spc = "insert"
    /\ batch.size = 2
    /\ batch.clean
    /\ seededFull[batch.bucket] = 2
    /\ Len(scenarios) = 1

Seeded(b) == counts[b] - loaded[b]

C8_Terminates == (spc \in {"round", "insert"}) ~> (spc = "done")

\* C9 as stated: total_seeded never exceeds the limit.
C9_NeverOverLimit == total_seeded <= cfg.cap

\* C9 as amended: no round starts over the limit, so total_seeded exceeds it
\* by at most the insertions of one round.
C9_OverByOneRound ==
    /\ spc = "round" => total_seeded <= cfg.cap
    /\ total_seeded <= cfg.cap + cfg.batch * Len(cfg.buckets)

\* a run has ended over the limit
C9_Witness == spc = "done" /\ total_seeded > cfg.cap

\* C10: target 3 at batch size 2 on an empty store: two new rows after round
\* 1, three after round 2, and the run ends with 3 seeded and 3 rows queued.
C10_EndToEnd ==
    /\ (spc = "round" /\ round_num = 1) => (counts[1] = 2 /\ Len(queue) = 2)
    /\ (spc = "round" /\ round_num = 2) => (counts[1] = 3 /\ Len(queue) = 3)
    /\ spc = "done" => (total_seeded = 3 /\ Len(queue) = 3)

HasSolution(scenario_hash) == \E sol \in solutions : sol.scenario_hash = scenario_hash

\* C11: when the solver has returned a failure with reason R, the worker's
\* next step leaves the row it holds failed with error_message R and an end
\* timestamp and writes no Solution; a Solution is only ever written by a
\* worker whose solver call succeeded.
C11_FailureRecorded ==
    [][(\A w \in Workers :
           (wpc[w] = "solve" /\ ~result[w].success /\ wpc'[w] # "solve") =>
              /\ queue'[cur[w]].status = "failed"
              /\ queue'[cur[w]].error_message = result[w].error
              /\ queue'[cur[w]].completed_at # NULL
              /\ solutions' = solutions)
       /\ (solutions' # solutions =>
              \E w \in Workers : /\ wpc[w] = "solve"
                                  /\ result[w].success
                                  /\ wpc'[w] = "upserted")]_vars

\* a row failed with the solver's reason, nothing solved for its scenario
C11_Witness ==
    \E i \in Rows : /\ queue[i].status = "failed"
                     /\ queue[i].error_message \in Reasons
                     /\ queue[i].completed_at # NULL
                     /\ ~HasSolution(queue[i].scenario_hash)

\* C12: every completed row has a Solution of its scenario_hash.
C12_CompletedHasSolution ==
    \A i \in Rows : queue[i].status = "completed" => HasSolution(queue[i].scenario_hash)

\* a row is completed
C12_Witness ==
    \E i \in Rows : /\ queue[i].status = "completed"
                     /\ queue[i].completed_at # NULL
                     /\ HasSolution(queue[i].scenario_hash)

\* C13: no exception raised in an iteration ends the worker loop.
C13_NeverExits == \A w \in Workers : wpc[w] # "exited"

\* C14: the update that claims a row does not test the row's status: the
\* step from claim to solve always leaves the row solving and hands it to
\* the solver, whatever another worker has done to the row in between; so
\* two workers that read the same pending row both go on to solve it.
C14_ClaimUnconditional ==
    [][\A w \in Workers :
          (wpc[w] = "claim" /\ wpc'[w] = "solve") =>
             /\ queue'[cur[w]].status = "solving"
             /\ queue'[cur[w]].started_at # NULL
             /\ HandedOf(cur[w])' >= 1]_vars

\* both workers are solving the same row, which no seeder write has turned
\* back to pending (in round 1 no scenario is written twice): both read it
\* while it was pending, before either wrote solving
C14_Witness ==
    /\ deploy = "concurrent"
    /\ round_num = 1
    /\ wpc[1] = "solve"
    /\ wpc[2] = "solve"
    /\ cur[1] = cur[2]
    /\ HandedOf(cur[1]) = 2

\* C15: with buckets of priority 10 and 1 seeded into an empty queue while
\* one worker polls, the first row the worker claims is of priority 10:
\* the row of the first successful query, and the one row handed to the
\* solver before any other.
C15_FirstClaimTopBucket ==
    /\ \A w \in Workers :
          (wpc[w] = "claim" /\ DOMAIN handed = {}) => queue[cur[w]].priority = 10
    /\ Cardinality(DOMAIN handed) = 1 =>
          \A i \in DOMAIN handed : queue[i].priority = 10

\* the worker's first query has returned while a row of the priority-1
\* bucket is pending as well
C15_Witness ==
    /\ DOMAIN handed = {}
    /\ wpc[1] = "claim"
    /\ queue[cur[1]].priority = 10
    /\ \E j \in Rows : queue[j].status = "pending" /\ queue[j].priority = 1

\* C16: the seeder's hash is a function of the nine fields: equal scenarios
\* get equal hashes, and scenarios that differ in any field get different
\* hash inputs.
C16_HashIdentifies ==
    hx.done => (hx.a = hx.b <=> hx.hash_a = hx.hash_b)

\* two scenarios that differ in the villain alone have been hashed
C16_Witness ==
    /\ hx.done
    /\ hx.a.villain # hx.b.villain
    /\ [hx.a EXCEPT !.villain = hx.b.villain] = hx.b
    /\ hx.hash_a # hx.hash_b

\* C17: the three scripts give a scenario the same identity hash.
C17_SameHashInEveryScript ==
    hx.done => (hx.hash_a = hx.tree_a /\ hx.hash_a = hx.batch_a)

\* queue rows of a bucket: those of its format and one of its stack depths
RowsOfBucket(b) ==
    {i \in Rows : /\ queue[i].format_code = cfg.buckets[b].format
                  /\ \E k \in 1..Len(cfg.buckets[b].stack_depths) :
                        queue[i].stack_depth_bb = cfg.buckets[b].stack_depths[k]}

\* C18: in a run that starts on an empty queue, at every round boundary the
\* cached count of a bucket has advanced by the number of queue rows created
\* for it, and total_seeded is the number of queue rows created.
C18_CountsNewRows ==
    spc = "round" =>
       /\ \A b \in BucketIds : Seeded(b) = Cardinality(RowsOfBucket(b))
       /\ total_seeded = Len(queue)

PriorityOf(b) == cfg.buckets[b].priority

\* C19: for the tracker's counts, get_incomplete_buckets returns exactly the
\* buckets whose count is below their target, each once, by descending
\* priority, and those of equal priority in catalog order.
C19_IncompleteSorted ==
    LET r == get_incomplete_buckets(counts)
    IN /\ {r[k] : k \in 1..Len(r)} =
             {b \in BucketIds : counts[b] < cfg.buckets[b].target_count}
       /\ \A k, l \in 1..Len(r) :
             k < l => /\ r[k] # r[l]
                      /\ PriorityOf(r[k]) >= PriorityOf(r[l])
                      /\ PriorityOf(r[k]) = PriorityOf(r[l]) => r[k] < r[l]

\* one bucket is complete; of the others the one of priority 9 comes first and
\* the two of priority 5 follow in catalog order
C19_Witness ==
    /\ counts[2] = cfg.buckets[2].target_count
    /\ get_incomplete_buckets(counts) = <<4, 1, 3>>
    /\ incomplete = <<4, 1, 3>>

InRound(b) == \E k \in 1..Len(incomplete) : incomplete[k] = b

Waiting(b) == \E k \in 2..Len(todo) : todo[k] = b

\* scenarios written for the bucket since the top of the round
Received(b) == counts[b] - roundStart[b]

\* the batch the bucket is due in the round
Due(b) == Min(cfg.batch, cfg.buckets[b].target_count - roundStart[b])

\* C20: a round serves exactly the buckets that are incomplete at its top;
\* when it ends each of them has received its one batch, and while it runs
\* no bucket has more than its one batch and the buckets still waiting have
\* nothing of this round yet; so after the first round every bucket is
\* present in the queue.
C20_NoStarvation ==
    round_num >= 1 =>
       /\ \A b \in BucketIds :
             /\ InRound(b) <=> roundStart[b] < cfg.buckets[b].target_count
             /\ Received(b) <= Due(b)
             /\ ~InRound(b) => Received(b) = 0
       /\ spc \in {"round", "done"} =>
             \A b \in BucketIds :
                /\ InRound(b) => (Due(b) >= 1 /\ Received(b) = Due(b))
                /\ RowsOfBucket(b) # {}
       /\ spc = "insert" =>
             \A b \in BucketIds :
                /\ Waiting(b) => Received(b) = 0
                /\ (InRound(b) /\ ~Waiting(b) /\ b # Head(todo)) =>
                      Received(b) = Due(b)
                /\ b = Head(todo) => Received(b) < Due(b)

\* the bucket of lowest priority is receiving its batch of round 1 while a
\* bucket of higher priority, served before it, is still short of its target
C20_Witness ==
    /\ spc = "insert"
    /\ round_num = 1
    /\ Len(incomplete) = 3
    /\ Len(todo) = 1
    /\ PriorityOf(Head(todo)) < PriorityOf(incomplete[1])
    /\ counts[incomplete[1]] < cfg.buckets[incomplete[1]].target_count
    /\ Received(incomplete[1]) = cfg.batch

\* C21: a solve that succeeds with an output holding no frequency data (here:
\* an output without any line) is a success: the Solution written has no
\* frequencies and the primary action "unknown", and the row becomes
\* completed.
C21_UnreadableIsUnknown ==
    [][\A w \in Workers :
          /\ (wpc[w] = "solve" /\ wpc'[w] = "upserted") =>
                \E sol \in solutions' :
                   /\ sol.scenario_hash = queue[cur[w]].scenario_hash
                   /\ sol.gto_action = "unknown"
                   /\ sol.gto_frequencies = <<>>
          /\ (wpc[w] = "upserted" /\ wpc'[w] = "poll") =>
                queue'[cur[w]].status = "completed"]_vars

\* C29: when the parsed frequencies are not empty, the primary action is one
\* of their actions and none of them has a greater frequency.
C29_PrimaryIsMaximal ==
    (hx.done /\ hx.parsed.frequencies # <<>>) =>
       /\ hx.parsed.gto_action \in Keys(hx.parsed.frequencies)
       /\ \A key \in Keys(hx.parsed.frequencies) :
             Get(hx.parsed.frequencies, key) <=
                Get(hx.parsed.frequencies, hx.parsed.gto_action)

\* the output gave call 70% and fold 30% and the primary action is call
C29_Witness ==
    /\ hx.done
    /\ hx.parsed.frequencies =
          <<Item("fold", 30), Item("call", 70), Item("raise", 0)>>
    /\ hx.parsed.gto_action = "call"

C23_OnlyClaimedRow ==
    [][\A w \in Workers :
          wpc'[w] # wpc[w] =>
             /\ Len(queue') = Len(queue)
             /\ \A i \in Rows : i # cur[w] => queue'[i] = queue[i]
             /\ \A sol \in (solutions' \ solutions) \cup (solutions \ solutions') :
                   /\ cur[w] \in Rows
                   /\ sol.scenario_hash = queue[cur[w]].scenario_hash]_vars

\* an iteration that raised has left its row failed with the exception's
\* text, and another row is as the seeder wrote it
C23_Witness ==
    \E i, j \in Rows :
       /\ i # j
       /\ queue[i].status = "failed"
       /\ queue[i].error_message = StoreError
       /\ queue[j].status = "pending"
       /\ queue[j].started_at = NULL

\* the status of the i-th queue row, "absent" before the row is written
StatusAt(i) == IF i <= Len(queue) THEN queue[i].status ELSE "absent"

\* C24: once seeding has ended, every pending row is eventually completed or
\* failed, whatever the solver returns for the rows ahead of it.
C24_PendingSettles ==
    \A i \in 1..CfgOne.buckets[1].target_count :
       (spc = "done" /\ StatusAt(i) = "pending")
          ~> (StatusAt(i) \in {"completed", "failed"})

\* after the seeding one row has failed and the other has been completed
C24_Witness ==
    /\ spc = "done"
    /\ Len(queue) = 2
    /\ \E i, j \in Rows : /\ queue[i].status = "failed"
                           /\ queue[j].status = "completed"

\* C25: an interrupt that arrives while the solver call is in flight leaves
\* the row being solved completed or failed when the worker stops.
C25_InterruptedSolveSettles ==
    [][\A w \in Workers :
         (wpc[w] = "solve" /\ wpc'[w] = "stopped")
            => queue'[cur[w]].status \in {"completed", "failed"}]_vars

\* C26: the batch enumerated for a bucket holds exactly
\* min(BATCH_SIZE, target - cached count) scenarios, the cached count never
\* exceeds the target, and a bucket seeded in the run that is no longer
\* incomplete has a cached count equal to its target.
C26_BatchWithinTarget ==
    /\ \A b \in BucketIds : counts[b] <= cfg.buckets[b].target_count
    /\ spc = "insert" =>
          /\ batch.size = Min(cfg.batch, cfg.buckets[batch.bucket].target_count
                                            - roundStart[batch.bucket])
          /\ counts[batch.bucket] + Len(scenarios)
                <= cfg.buckets[batch.bucket].target_count
    /\ \A b \in BucketIds :
          (counts[b] > loaded[b] /\ ~IsIncomplete(counts, b))
             => counts[b] = cfg.buckets[b].target_count

\* bucket 1 entered the round one short of its target, received the one
\* scenario it lacked and is complete now
C26_Witness ==
    /\ InRound(1)
    /\ roundStart[1] = cfg.buckets[1].target_count - 1
    /\ counts[1] = cfg.buckets[1].target_count
    /\ ~IsIncomplete(counts, 1)
    /\ IsIncomplete(counts, 2)

\* C27: for a fixed bucket the list of n scenarios is a prefix of the list
\* of m scenarios whenever n <= m.
C27_PrefixOfLonger ==
    (hx.done /\ hx.n <= hx.m) =>
       /\ Len(hx.short) = hx.n
       /\ Len(hx.long) = hx.m
       /\ hx.short = SubSeq(hx.long, 1, hx.n)

\* three scenarios asked first, five asked later
C27_Witness ==
    /\ hx.done
    /\ hx.n = 3
    /\ hx.m = 5
    /\ hx.short[3] = hx.long[3]
    /\ hx.long[4] # hx.long[3]

\* the values a list of scenarios takes from domain D through field F follow
\* D[i mod |D|], and the first |D| scenarios hold every value of D once
CycledOnce(gen, D, F(_)) ==
    /\ \A i \in 1..Len(gen) : F(gen[i]) = D[((i - 1) % Len(D)) + 1]
    /\ Len(gen) >= Len(D) =>
          /\ {F(gen[i]) : i \in 1..Len(D)} = {D[k] : k \in 1..Len(D)}
          /\ \A i, j \in 1..Len(D) : F(gen[i]) = F(gen[j]) => i = j

\* C28: every parameter domain of a bucket is cycled by the one index, so
\* the first |D| scenarios contain every value of D exactly once.
C28_DomainsCycled ==
    hx.done =>
       /\ CycledOnce(hx.long, hx.config.stack_depths,
                     LAMBDA s : s.stack_depth_bb)
       /\ CycledOnce(hx.long, PositionsOf(hx.config.format),
                     LAMBDA s : <<s.hero_position, s.villain_position>>)
       /\ CycledOnce(hx.long, BOARD_LIBRARY, LAMBDA s : s.board)
       /\ CycledOnce(hx.long, POT_TYPES, LAMBDA s : s.pot_type)
       /\ CycledOnce(hx.long, FACING_ACTIONS, LAMBDA s : s.action_facing)

\* twenty scenarios of a 6-max bucket: the board library has been gone
\* through once and starts again, the position pairs for the fourth time
C28_Witness ==
    /\ hx.done
    /\ hx.m = Len(BOARD_LIBRARY) + 1
    /\ Contains(hx.config.format, "6max")
    /\ hx.long[Len(BOARD_LIBRARY)].board = BOARD_LIBRARY[Len(BOARD_LIBRARY)]
    /\ hx.long[Len(BOARD_LIBRARY) + 1].board = BOARD_LIBRARY[1]
    /\ hx.long[Len(BOARD_LIBRARY) + 1].hero_position = "CO"

\* C30: the error_message of a failed update is the reason cut to a fixed
\* length: it is never longer than that length and is the reason itself
\* when the reason is within it.
C30_ErrorMessageBounded ==
    hx.done =>
       /\ Len(hx.update.error_message) <= PrintedLength
       /\ Len(hx.reason) <= PrintedLength
             => hx.update.error_message = hx.reason

\* C31: every queue row is a flop scenario whose board is a sequence of
\* exactly three card tokens.
C31_FlopBoardThreeCards ==
    \A i \in Rows : /\ queue[i].street = "flop"
                     /\ Len(queue[i].board) = 3

\* C32: a row is created in status pending, and in every state the priority
\* of a row is the priority of the bucket it was enumerated for.
C32_PriorityOfBucket ==
    [][\A i \in 1..Len(queue') :
          /\ \E b \in BucketIds :
                /\ queue'[i].format_code = cfg.buckets[b].format
                /\ queue'[i].stack_depth_bb = cfg.buckets[b].stack_depths[1]
                /\ queue'[i].priority = cfg.buckets[b].priority
          /\ i > Len(queue) => queue'[i].status = "pending"]_vars

\* rows of both buckets exist, one of them has failed and the other has been
\* completed
C32_Witness ==
    \E i, j \in Rows :
       /\ queue[i].priority = cfg.buckets[1].priority
       /\ queue[j].priority = cfg.buckets[2].priority
       /\ queue[i].status = "failed"
       /\ queue[j].status = "completed"

\* C33: no two queue rows have the same scenario_hash.
C33_QueueHashUnique ==
    \A i, j \in Rows :
       queue[i].scenario_hash = queue[j].scenario_hash => i = j

\* the seeder has written a scenario a second time, after a worker had
\* claimed its row
C33_Witness ==
    /\ total_seeded > Len(queue)
    /\ Len(queue) = 2
    /\ \E i \in Rows : queue[i].status = "pending" /\ queue[i].started_at # NULL

\* C34: a row that is in status solving is eventually completed or failed
\* while the worker keeps running, also when an exception is raised after
\* the claim.
C34_SolvingSettles ==
    \A i \in 1..CfgOne.buckets[1].target_count :
       (StatusAt(i) = "solving") ~> (StatusAt(i) \in {"completed", "failed"})

\* C35: a queue row in status failed has no Solution row of its
\* scenario_hash.
C35_FailedHasNoSolution ==
    \A i \in Rows :
       queue[i].status = "failed" => ~HasSolution(queue[i].scenario_hash)

\* C36: a queue row carries an error_message only while its status is
\* failed.
C36_MessageOnlyWhenFailed ==
    \A i \in Rows :
       queue[i].error_message # NULL => queue[i].status = "failed"

RECURSIVE GCD(_, _)
GCD(a, b) == IF b = 0 THEN a ELSE GCD(b, a % b)

LCM(a, b) == (a * b) \div GCD(a, b)

\* the least common multiple of the sizes of a bucket's five domains
Period(config) ==
    LCM(Len(config.stack_depths),
        LCM(Len(PositionsOf(config.format)),
            LCM(Len(BOARD_LIBRARY), LCM(Len(POT_TYPES), Len(FACING_ACTIONS)))))

\* C37: the scenarios at two indices are the same exactly when the indices
\* are congruent modulo the least common multiple of the domain sizes, and
\* the first batch of BATCH_SIZE scenarios has no hash twice.
C37_RepeatsAtPeriod ==
    hx.done =>
       /\ \A i \in 1..BATCH_SIZE :
             (hx.batch[i] = hx.at)
                <=> ((i - 1) % Period(hx.config) = hx.j % Period(hx.config))
       /\ \A i, k \in 1..BATCH_SIZE :
             hx.batch[i].scenario_hash = hx.batch[k].scenario_hash => i = k

\* a 9-max bucket: index 799 gives the scenario of index 1 again
C37_Witness ==
    /\ hx.done
    /\ Contains(hx.config.format, "9max")
    /\ Period(hx.config) = 798
    /\ hx.j = 799
    /\ hx.at = hx.batch[2]

\* C38: two different buckets of the catalog differ in format code or
\* stack depth, and scenarios enumerated for them never have the same
\* scenario_hash.
C38_BucketsDisjoint ==
    (hx.done /\ hx.a # hx.b) =>
       /\ <<BUCKETS[hx.a].format, BUCKETS[hx.a].stack_depths>>
             # <<BUCKETS[hx.b].format, BUCKETS[hx.b].stack_depths>>
       /\ hx.of_a.scenario_hash # hx.of_b.scenario_hash

\* two buckets of one format: the scenarios of one index differ in the
\* stack depth only
C38_Witness ==
    /\ hx.done
    /\ hx.a # hx.b
    /\ hx.i = hx.k
    /\ BUCKETS[hx.a].format = BUCKETS[hx.b].format
    /\ hx.of_a.board = hx.of_b.board
    /\ hx.of_a.hero_position = hx.of_b.hero_position
    /\ hx.of_a.stack_depth_bb # hx.of_b.stack_depth_bb

\* C39: the two worker scripts are equivalent: the primary action of the
\* Solution a worker stores for a solver output is the one either script
\* stores for that output.
C39_ScriptsAgree ==
    [][\A w \in Workers :
          (wpc[w] = "solve" /\ wpc'[w] = "upserted") =>
             \A s \in Scripts :
                \E sol \in solutions' :
                   /\ sol.scenario_hash = queue[cur[w]].scenario_hash
                   /\ sol.gto_action =
                         ParseBy(s, result[w].raw_output).gto_action]_vars

=============================================================================
